---- MODULE Spec2Model ----
(***************************************************************************)
(* LoanCalculator (src/unnamed/part_005, duplicated verbatim in            *)
(* src/js/auth.js): calculateSchedule, calculateNetRent,                   *)
(* calculateAnnuityPayment, calculateInvestmentMetrics.                    *)
(*                                                                         *)
(* JavaScript numbers are modelled as fixed-point numbers.  Amounts of     *)
(* money are integers counting 1/Unit of a currency unit; rates and        *)
(* factors are integers counting 1/One.  Every multiplication and division *)
(* rounds its exact result to the nearest representable value, as an IEEE  *)
(* operation does; additions and subtractions are exact.                   *)
(***************************************************************************)
EXTENDS Integers, Sequences, FiniteSets, TLC

\* ------------------------------------------------------------------ numbers

\* Money resolution: Unit steps per currency unit.
Unit == 10^5
\* Resolution of rates and factors: One represents 1.0.
One == 10^8
\* Largest integer the checker's arithmetic holds.
MaxInt == 2147483647

\* The number Infinity, above every amount and every month the model reaches,
\* and the value null where a number is expected.
Infinity == MaxInt
Null == 0 - MaxInt

Min(a, b) == IF a <= b THEN a ELSE b
Max(a, b) == IF a >= b THEN a ELSE b

\* The arithmetic below is written as functions of tuples, so that every
\* argument is a value by the time the function body reads it.

\* x + y modulo c with the carry, for 0 <= x, y < c, never exceeding MaxInt.
AddMod(x, y, c) == IF x >= c - y THEN <<1, x - (c - y)>> ELSE <<0, x + y>>

\* From <<q, r>> with a * (b \div 2) = q * c + r to the pair for a * b;
\* v = <<q, r, a, b % 2, c>>.
QRDouble[v \in Nat \X Nat \X Nat \X Nat \X Nat] ==
    LET d == AddMod(v[2], v[2], v[5])
        e == IF v[4] = 1 THEN AddMod(d[2], v[3], v[5]) ELSE <<0, d[2]>>
    IN  <<2 * v[1] + d[1] + e[1], e[2]>>

\* <<q, r>> with a * b = q * c + r and 0 <= r < c, for v = <<a, b, c>> with
\* 0 <= a < c and b >= 0, computed by doubling so that no intermediate
\* exceeds MaxInt.
MulQR[v \in Nat \X Nat \X Nat] ==
    IF v[2] = 0 \/ v[1] = 0 THEN <<0, 0>>
    ELSE IF v[1] <= MaxInt \div v[2]
    THEN <<(v[1] * v[2]) \div v[3], (v[1] * v[2]) % v[3]>>
    ELSE QRDouble[MulQR[<<v[1], v[2] \div 2, v[3]>>] \o <<v[1], v[2] % 2, v[3]>>]

\* The quotient of <<q, r, whole, c>> rounded to nearest (ties up), plus whole.
RoundQR[v \in Nat \X Nat \X Nat \X Nat] ==
    v[3] + v[1] + (IF v[2] >= v[4] - v[2] THEN 1 ELSE 0)

\* a * b / c rounded to the nearest integer, for v = <<a, b, c>>, a, b >= 0, c > 0.
MulDivOf[v \in Nat \X Nat \X Nat] ==
    RoundQR[MulQR[<<v[1] % v[3], v[2], v[3]>>] \o <<(v[1] \div v[3]) * v[2], v[3]>>]

\* A positive number divided by 0 is Infinity.
MulDiv(a, b, c) == IF c = 0 THEN Infinity ELSE MulDivOf[<<a, b, c>>]

\* Sums and differences that a payment of Infinity can enter.
Plus(a, b) == IF a = Infinity \/ b = Infinity THEN Infinity ELSE a + b
Less(a, b) == IF a = Infinity THEN Infinity ELSE a - b

\* a * b / c for an a of either sign.
SMulDivOf[v \in Int \X Nat \X Nat] ==
    IF v[1] < 0 THEN 0 - MulDivOf[<<0 - v[1], v[2], v[3]>>] ELSE MulDivOf[v]

SMulDiv(a, b, c) == SMulDivOf[<<a, b, c>>]

\* money * ratio, money / ratio, ratio * ratio, x / n
Times(m, r) == MulDivOf[<<m, r, One>>]
Over(m, r) == MulDivOf[<<m, One, r>>]
DivInt(m, n) == MulDiv(m, 1, n)

\* The square of h, times base when odd; v = <<h, base, odd>>.
PowStep[v \in Nat \X Nat \X Nat] ==
    IF v[3] = 1 THEN Times(Times(v[1], v[1]), v[2]) ELSE Times(v[1], v[1])

\* Math.pow(base, n) for a ratio base and an integer n >= 0; v = <<base, n>>.
PowOf[v \in Nat \X Nat] ==
    IF v[2] = 0 THEN One
    ELSE PowStep[<<PowOf[<<v[1], v[2] \div 2>>], v[1], v[2] % 2>>]

Pow(base, n) == PowOf[<<base, n>>]

\* The middle of lo..hi.
Mid(lo, hi) == lo + (hi - lo) \div 2

\* Math.pow(x, 1/12) for a ratio x >= 1: the largest ratio y with y^12 <= x,
\* by bisection; v = <<x, lo, hi>> with lo^12 <= x < hi^12.
Root12Between[v \in Nat \X Nat \X Nat] ==
    IF v[3] - v[2] <= 1 THEN v[2]
    ELSE IF Pow(Mid(v[2], v[3]), 12) <= v[1]
    THEN Root12Between[<<v[1], Mid(v[2], v[3]), v[3]>>]
    ELSE Root12Between[<<v[1], v[2], Mid(v[2], v[3])>>]

Root12(x) == IF x <= One THEN One ELSE Root12Between[<<x, One, x + 1>>]

\* Ratios above Huge are not told apart (they stand for "too large").
Huge == 20 * One

\* ratio * ratio, saturating at Huge; v = <<a, b>>.
TimesSat[v \in Nat \X Nat] ==
    IF v[1] <= One \/ v[2] <= One THEN Min(Huge, Times(v[1], v[2]))
    ELSE IF v[2] > MulDiv(Huge, One, v[1]) THEN Huge
    ELSE Min(Huge, Times(v[1], v[2]))

\* The saturating square of h, times base when odd; v = <<h, base, odd>>.
PowSatStep[v \in Nat \X Nat \X Nat] ==
    IF v[3] = 1 THEN TimesSat[<<TimesSat[<<v[1], v[1]>>], v[2]>>] ELSE TimesSat[<<v[1], v[1]>>]

\* Math.pow(base, n), saturating at Huge; v = <<base, n>>.
PowSat[v \in Nat \X Nat] ==
    IF v[2] = 0 THEN One
    ELSE PowSatStep[<<PowSat[<<v[1], v[2] \div 2>>], v[1], v[2] % 2>>]

\* Math.pow(x, 1/n) for a ratio 0 <= x < Huge and an integer n >= 1, by
\* bisection; v = <<x, n, lo, hi>>.
RootBetween[v \in Nat \X Nat \X Nat \X Nat] ==
    IF v[4] - v[3] <= 1 THEN v[3]
    ELSE IF PowSat[<<Mid(v[3], v[4]), v[2]>>] <= v[1]
    THEN RootBetween[<<v[1], v[2], Mid(v[3], v[4]), v[4]>>]
    ELSE RootBetween[<<v[1], v[2], v[3], Mid(v[3], v[4])>>]

\* v = <<x, n>>
RootN[v \in Nat \X Nat] ==
    IF v[2] = 1 \/ v[1] = 0 \/ v[1] = One THEN v[1]
    ELSE IF v[1] > One THEN RootBetween[<<v[1], v[2], One, v[1]>>]
    ELSE RootBetween[<<v[1], v[2], v[1], One>>]

\* ------------------------------------------------------------------ records

\* config.field, or the destructuring default when the field is absent.
Get(rec, fld, dflt) == IF fld \in DOMAIN rec THEN rec[fld] ELSE dflt

\* rentalIncome = null
NoRental == [absent |-> TRUE]
HasRental(config) == "grossRent" \in DOMAIN Get(config, "rentalIncome", NoRental)

\* rentalIncome?.rentalDurationMonths ?? Infinity (line 66): undefined and null
\* both give Infinity.
rentalDurationMonthsOf(rental) ==
    IF Get(rental, "rentalDurationMonths", Null) = Null
    THEN Infinity ELSE rental.rentalDurationMonths

\* The rental window with null compared as the number it converts to, 0.
WithinRentalDuration_NullIsZero(rental, month) ==
    IF "rentalDurationMonths" \notin DOMAIN rental THEN TRUE
    ELSE IF rental.rentalDurationMonths = Null THEN month <= 0
    ELSE month <= rental.rentalDurationMonths

\* month <= rentalDurationMonths (line 146).
WithinRentalDuration(rental, month) == month <= rentalDurationMonthsOf(rental)

\* new Date(value) for a Date or for the ISO string of one.
NewDate(value) == IF "iso" \in DOMAIN value THEN value.iso ELSE value

\* JSON.parse(JSON.stringify(value)) for a number: Infinity comes back as null.
JsonNumber(value) == IF value = Infinity THEN Null ELSE value

NumberFields ==
    { "loanAmount", "annualInterestRate", "annualInflationRate", "loanTermYears",
      "monthlyFee", "extraPayment", "fixedPayment", "grossRent", "taxRate",
      "vacancyRate", "operatingCosts", "rentalDurationMonths" }

\* JSON.parse(JSON.stringify(rentalIncome)): null stays null.
JsonRental(rental) ==
    IF "grossRent" \in DOMAIN rental
    THEN [ k \in DOMAIN rental |->
             IF k \in NumberFields THEN JsonNumber(rental[k]) ELSE rental[k] ]
    ELSE rental

\* JSON.parse(JSON.stringify(config)): numbers, booleans and strings come back
\* as they were (Infinity as null), a Date as its ISO string, and a field
\* that is undefined stays away.
jsonRoundTrip(c) ==
    [ k \in DOMAIN c |->
        IF k = "rentalIncome" THEN JsonRental(c[k])
        ELSE IF k = "startDate" THEN [iso |-> c[k]]
        ELSE IF k \in NumberFields THEN JsonNumber(c[k])
        ELSE c[k] ]

\* ------------------------------------------------------------------ LoanCalculator

\* calculateNetRent without the floor at 0.
calculateNetRent_Unfloored(rental, inflationFactor) ==
    LET grossRent == rental.grossRent
        taxRate == Get(rental, "taxRate", 11 * (One \div 100))
        vacancyRate == Get(rental, "vacancyRate", 5 * (One \div 100))
        operatingCosts == Get(rental, "operatingCosts", 0)
        indexed == Get(rental, "indexed", TRUE)
        indexCosts == Get(rental, "indexCosts", TRUE)
        adjustedGrossRent == IF indexed THEN Times(grossRent, inflationFactor) ELSE grossRent
        adjustedCosts == IF indexCosts THEN Times(operatingCosts, inflationFactor) ELSE operatingCosts
        taxAmount == Times(adjustedGrossRent, taxRate)
        vacancyLoss == Times(adjustedGrossRent, vacancyRate)
    IN  adjustedGrossRent - taxAmount - vacancyLoss - adjustedCosts

\* calculateNetRent(rental, inflationFactor)
calculateNetRent(rental, inflationFactor) ==
    LET grossRent == rental.grossRent
        taxRate == Get(rental, "taxRate", 11 * (One \div 100))
        vacancyRate == Get(rental, "vacancyRate", 5 * (One \div 100))
        operatingCosts == Get(rental, "operatingCosts", 0)
        indexed == Get(rental, "indexed", TRUE)
        indexCosts == Get(rental, "indexCosts", TRUE)
        adjustedGrossRent == IF indexed THEN Times(grossRent, inflationFactor) ELSE grossRent
        adjustedCosts == IF indexCosts THEN Times(operatingCosts, inflationFactor) ELSE operatingCosts
        taxAmount == Times(adjustedGrossRent, taxRate)
        vacancyLoss == Times(adjustedGrossRent, vacancyRate)
    IN  Max(0, adjustedGrossRent - taxAmount - vacancyLoss - adjustedCosts)

\* calculateAnnuityPayment with the zero-rate case returning the principal undivided.
calculateAnnuityPayment_Undivided(principal, monthlyRate, months) ==
    IF principal <= 0 THEN 0
    ELSE IF monthlyRate = 0 THEN principal
    ELSE LET factor == Pow(One + monthlyRate, months)
         IN  MulDiv(principal, Times(monthlyRate, factor), factor - One)

\* LoanCalculator.calculateAnnuityPayment(principal, monthlyRate, months)
calculateAnnuityPayment(principal, monthlyRate, months) ==
    IF principal <= 0 THEN 0
    ELSE IF monthlyRate = 0 THEN DivInt(principal, months)
    ELSE LET factor == Pow(One + monthlyRate, months)
         IN  MulDiv(principal, Times(monthlyRate, factor), factor - One)

\* A Date: the month counted from an epoch, the day of the month and the time
\* of day.
FirstClock == [month |-> 0, day |-> 2, time |-> 1]
NoEarlier == [none |-> TRUE]

\* Lines 69-71: new Date(startDate), setDate(1), setMonth(getMonth() + 1).
paymentStartDateOf(startDate) == [startDate EXCEPT !.day = 1, !.month = @ + 1]

\* Lines 184-185: new Date(paymentStartDate), setMonth(getMonth() + month - 1).
paymentDateOf(paymentStartDate, month) ==
    [paymentStartDate EXCEPT !.month = @ + month - 1]

VARIABLES
    config,      \* the argument of calculateSchedule
    pc,          \* "call", "loop", "done"
    loc,         \* the locals of calculateSchedule that live across iterations
    it,          \* the locals of the latest loop iteration
    schedule,    \* the entries pushed so far
    result,      \* what calculateSchedule returned: pending, null, or {schedule, summary}
    invest,      \* the argument of calculateInvestmentMetrics
    metrics,     \* what calculateInvestmentMetrics returned
    now,         \* the wall clock that new Date() reads
    earlier,     \* what an earlier invocation with the same config returned
    scenarios,   \* ScenarioManager: this.scenarios
    storage,     \* localStorage under the manager's storageKey: no item, or one item
    added        \* what the latest add(name, params) pushed and returned

\* The state of the ScenarioManager.
manager == <<scenarios, storage, added>>

vars == <<config, pc, loc, it, schedule, result, invest, metrics, now, earlier, manager>>

\* No ScenarioManager call has been made: nothing stored, nothing in memory.
NoAdded == [none |-> TRUE]
NoItem == <<>>
NoManager == scenarios = <<>> /\ storage = NoItem /\ added = NoAdded

\* The derived constants of lines 30-55.
isIndexed(c) == Get(c, "loanType", "indexedAnnuity") = "indexedAnnuity"
isEqualPrincipal(c) == Get(c, "loanType", "indexedAnnuity") = "nonIndexedEqualPrincipal"
monthlyInterestRateOf(c) == DivInt(c.annualInterestRate, 12)
\* The monthly inflation rate applied whatever the loan type.
monthlyInflationRateOf_EveryType(c) ==
    Root12(One + Get(c, "annualInflationRate", 0)) - One

monthlyInflationRateOf(c) ==
    IF isIndexed(c) THEN Root12(One + Get(c, "annualInflationRate", 0)) - One ELSE 0
totalMonthsOf(c) == c.loanTermYears * 12

\* The base payment spread over one period more than the term.
basePaymentOf_OneMonthMore(c) ==
    IF isEqualPrincipal(c) THEN DivInt(c.loanAmount, totalMonthsOf(c) + 1)
    ELSE IF monthlyInterestRateOf(c) = 0 THEN DivInt(c.loanAmount, totalMonthsOf(c) + 1)
    ELSE LET p == Pow(One + monthlyInterestRateOf(c), totalMonthsOf(c) + 1)
         IN  MulDiv(c.loanAmount, Times(monthlyInterestRateOf(c), p), p - One)

\* The base payment of lines 38-55.
basePaymentOf(c) ==
    IF isEqualPrincipal(c) THEN DivInt(c.loanAmount, totalMonthsOf(c))
    ELSE IF monthlyInterestRateOf(c) = 0 THEN DivInt(c.loanAmount, totalMonthsOf(c))
    ELSE LET p == Pow(One + monthlyInterestRateOf(c), totalMonthsOf(c))
         IN  MulDiv(c.loanAmount, Times(monthlyInterestRateOf(c), p), p - One)

NoIteration == [none |-> TRUE]

\* The guard of line 28 written with < in place of <=.
rejects_Strict(c) == c.loanAmount < 0

\* The guard of line 28.
rejects(c) == c.loanAmount <= 0

\* if (loanAmount <= 0) return null;
ReturnNull ==
    /\ pc = "call"
    /\ rejects(config)
    /\ pc' = "done"
    /\ result' = [kind |-> "null"]
    /\ UNCHANGED <<config, loc, it, schedule, invest, metrics, now, earlier, manager>>

\* Lines 30-74: rates, base payment and the tracking variables.
Enter ==
    /\ pc = "call"
    /\ ~rejects(config)
    /\ pc' = "loop"
    /\ loc' = [ monthlyInterestRate |-> monthlyInterestRateOf(config),
                monthlyInflationRate |-> monthlyInflationRateOf(config),
                totalMonths |-> totalMonthsOf(config),
                basePayment |-> basePaymentOf(config),
                balance |-> config.loanAmount,
                totalInterest |-> 0,
                totalInflation |-> 0,
                totalPaidByUser |-> 0,
                totalPaidToLoan |-> 0,
                totalFees |-> 0,
                totalRentalContribution |-> 0,
                paymentStartDate |-> paymentStartDateOf(NewDate(Get(config, "startDate", now))),
                month |-> 0,
                cumulativeInflationFactor |-> One ]
    /\ UNCHANGED <<config, it, schedule, result, invest, metrics, now, earlier, manager>>

\* The loop condition without the 600-period cap.
loopCondition_Uncapped(c, l) ==
    IF Get(c, "acceleratedPayoff", FALSE)
    THEN l.balance > Unit \div 100
    ELSE l.month < l.totalMonths

\* The loop condition stopping a fixed term, too, once the balance is repaid.
loopCondition_StopsWhenRepaid(c, l) ==
    /\ IF Get(c, "acceleratedPayoff", FALSE)
       THEN l.balance > Unit \div 100
       ELSE l.month < l.totalMonths /\ l.balance > Unit \div 100
    /\ l.month < 600

\* The loop condition with the 600-period cap on the fixed term only.
loopCondition_CapOnFixedTermOnly(c, l) ==
    IF Get(c, "acceleratedPayoff", FALSE)
    THEN l.balance > Unit \div 100
    ELSE l.month < l.totalMonths /\ l.month < 600

\* The loop condition of line 76.
loopCondition(c, l) ==
    /\ IF Get(c, "acceleratedPayoff", FALSE)
       THEN l.balance > Unit \div 100
       ELSE l.month < l.totalMonths
    /\ l.month < 600

LoopCondition == loopCondition(config, loc)

\* Step 1: inflationAmount (line 82).
inflationAmountOf(l) == Times(l.balance, l.monthlyInflationRate)

\* Interest charged on the balance before indexation.
interestOf_BeforeIndexation(l, balanceAfterInflation) == Times(l.balance, l.monthlyInterestRate)

\* Step 2: interest on the inflated balance (line 87).
interestOf(l, balanceAfterInflation) == Times(balanceAfterInflation, l.monthlyInterestRate)

\* Equal principal with the recalculating policy dividing by the whole term.
equalPrincipalPayment_WholeTerm(c, l, remainingMonths, balanceAfterInflation, interest) ==
    IF Get(c, "acceleratedPayoff", FALSE)
    THEN Plus(DivInt(c.loanAmount, l.totalMonths), interest)
    ELSE DivInt(balanceAfterInflation, l.totalMonths) + interest

\* Step 3, equal principal (lines 92-99).
equalPrincipalPayment(c, l, remainingMonths, balanceAfterInflation, interest) ==
    IF Get(c, "acceleratedPayoff", FALSE)
    THEN Plus(DivInt(c.loanAmount, l.totalMonths), interest)
    ELSE DivInt(balanceAfterInflation, remainingMonths) + interest

\* Step 3, indexed annuity (lines 100-112).
indexedPayment(c, l, remainingMonths, balanceAfterInflation) ==
    IF Get(c, "acceleratedPayoff", FALSE)
    THEN IF l.basePayment = Infinity THEN Infinity
         ELSE Times(l.basePayment, l.cumulativeInflationFactor)
    ELSE LET realBalance == Over(balanceAfterInflation, l.cumulativeInflationFactor)
             remainingRealPayment ==
                 calculateAnnuityPayment(realBalance, l.monthlyInterestRate, remainingMonths)
         IN  Times(remainingRealPayment, l.cumulativeInflationFactor)

\* The non-indexed annuity recalculated over the whole term every period.
nonIndexedPayment_OverWholeTerm(c, l, remainingMonths, balanceAfterInflation) ==
    IF Get(c, "acceleratedPayoff", FALSE)
    THEN l.basePayment
    ELSE calculateAnnuityPayment(balanceAfterInflation, l.monthlyInterestRate, l.totalMonths)

\* Step 3, non-indexed annuity (lines 113-124).
nonIndexedPayment(c, l, remainingMonths, balanceAfterInflation) ==
    IF Get(c, "acceleratedPayoff", FALSE)
    THEN l.basePayment
    ELSE calculateAnnuityPayment(balanceAfterInflation, l.monthlyInterestRate, remainingMonths)

\* The required payment with remainingMonths counted one too many.
requiredPaymentOf_OneMonthMore(c, l, month, balanceAfterInflation, interest) ==
    LET remainingMonths == Max(1, l.totalMonths - month + 2)
    IN  IF isEqualPrincipal(c)
        THEN equalPrincipalPayment(c, l, remainingMonths, balanceAfterInflation, interest)
        ELSE IF isIndexed(c)
        THEN indexedPayment(c, l, remainingMonths, balanceAfterInflation)
        ELSE nonIndexedPayment(c, l, remainingMonths, balanceAfterInflation)

\* The required payment with the remaining months never counted down.
requiredPaymentOf_WholeTermRemaining(c, l, month, balanceAfterInflation, interest) ==
    LET remainingMonths == Max(1, l.totalMonths)
    IN  IF isEqualPrincipal(c)
        THEN equalPrincipalPayment(c, l, remainingMonths, balanceAfterInflation, interest)
        ELSE IF isIndexed(c)
        THEN indexedPayment(c, l, remainingMonths, balanceAfterInflation)
        ELSE nonIndexedPayment(c, l, remainingMonths, balanceAfterInflation)

\* Step 3: the required payment of the period (lines 78, 91-124).
requiredPaymentOf(c, l, month, balanceAfterInflation, interest) ==
    LET remainingMonths == Max(1, l.totalMonths - month + 1)
    IN  IF isEqualPrincipal(c)
        THEN equalPrincipalPayment(c, l, remainingMonths, balanceAfterInflation, interest)
        ELSE IF isIndexed(c)
        THEN indexedPayment(c, l, remainingMonths, balanceAfterInflation)
        ELSE nonIndexedPayment(c, l, remainingMonths, balanceAfterInflation)

\* Step 4: the user's manual extra before the fixed-payment override (lines 127-132).
manualExtraOf(c, l) ==
    IF Get(c, "extraPayment", 0) > 0
    THEN IF Get(c, "indexExtraPayment", FALSE)
         THEN Times(c.extraPayment, l.cumulativeInflationFactor)
         ELSE c.extraPayment
    ELSE 0

\* The override applied whenever a fixed payment is configured.
fixedPaymentOverride_Always(fixedPayment, requiredPayment, manualExtra) ==
    IF fixedPayment > 0
    THEN [paymentBeforeRental |-> fixedPayment, manualExtra |-> 0]
    ELSE [paymentBeforeRental |-> requiredPayment, manualExtra |-> manualExtra]

\* The override leaving the manual extra in place.
fixedPaymentOverride_ExtraKept(fixedPayment, requiredPayment, manualExtra) ==
    IF fixedPayment > 0 /\ fixedPayment > requiredPayment
    THEN [paymentBeforeRental |-> fixedPayment, manualExtra |-> manualExtra]
    ELSE [paymentBeforeRental |-> requiredPayment, manualExtra |-> manualExtra]

\* The fixed-payment override (lines 135-139): the payment before rental and
\* the manual extra that remains.
fixedPaymentOverride(fixedPayment, requiredPayment, manualExtra) ==
    IF fixedPayment > 0 /\ fixedPayment > requiredPayment
    THEN [paymentBeforeRental |-> fixedPayment, manualExtra |-> 0]
    ELSE [paymentBeforeRental |-> requiredPayment, manualExtra |-> manualExtra]

\* The split with the user paying nothing once rent covers the payment.
rentalSplit_ExtraDropped(blended, netRent, paymentBeforeRental, manualExtra) ==
    IF ~blended
    THEN [rentalContribution |-> 0, rentBasedExtra |-> 0,
          userOutOfPocket |-> Plus(paymentBeforeRental, manualExtra)]
    ELSE IF netRent >= paymentBeforeRental
    THEN [rentalContribution |-> paymentBeforeRental,
          rentBasedExtra |-> netRent - paymentBeforeRental,
          userOutOfPocket |-> 0]
    ELSE [rentalContribution |-> netRent, rentBasedExtra |-> 0,
          userOutOfPocket |-> Plus(Less(paymentBeforeRental, netRent), manualExtra)]

\* The split with the surplus rent not applied to the loan.
rentalSplit_SurplusKept(blended, netRent, paymentBeforeRental, manualExtra) ==
    IF ~blended
    THEN [rentalContribution |-> 0, rentBasedExtra |-> 0,
          userOutOfPocket |-> Plus(paymentBeforeRental, manualExtra)]
    ELSE IF netRent >= paymentBeforeRental
    THEN [rentalContribution |-> paymentBeforeRental,
          rentBasedExtra |-> 0,
          userOutOfPocket |-> manualExtra]
    ELSE [rentalContribution |-> netRent, rentBasedExtra |-> 0,
          userOutOfPocket |-> Plus(Less(paymentBeforeRental, netRent), manualExtra)]

\* The split with the user still paying in full while rent covers a part.
rentalSplit_UserPaysInFull(blended, netRent, paymentBeforeRental, manualExtra) ==
    IF ~blended
    THEN [rentalContribution |-> 0, rentBasedExtra |-> 0,
          userOutOfPocket |-> Plus(paymentBeforeRental, manualExtra)]
    ELSE IF netRent >= paymentBeforeRental
    THEN [rentalContribution |-> paymentBeforeRental,
          rentBasedExtra |-> netRent - paymentBeforeRental,
          userOutOfPocket |-> manualExtra]
    ELSE [rentalContribution |-> netRent, rentBasedExtra |-> 0,
          userOutOfPocket |-> Plus(paymentBeforeRental, manualExtra)]

\* Step 5: the split between rent and the user (lines 142-162).
rentalSplit(blended, netRent, paymentBeforeRental, manualExtra) ==
    IF ~blended
    THEN [rentalContribution |-> 0, rentBasedExtra |-> 0,
          userOutOfPocket |-> Plus(paymentBeforeRental, manualExtra)]
    ELSE IF netRent >= paymentBeforeRental
    THEN [rentalContribution |-> paymentBeforeRental,
          rentBasedExtra |-> netRent - paymentBeforeRental,
          userOutOfPocket |-> manualExtra]
    ELSE [rentalContribution |-> netRent, rentBasedExtra |-> 0,
          userOutOfPocket |-> Plus(Less(paymentBeforeRental, netRent), manualExtra)]

\* The principal paid without the cap at the remaining balance.
actualPrincipalOf_Uncapped(totalPaymentToLoan, interest, balanceAfterInflation) ==
    Max(0, totalPaymentToLoan - interest)

\* Step 7: the principal paid (lines 169-172).
actualPrincipalOf(totalPaymentToLoan, interest, balanceAfterInflation) ==
    Max(0, Min(totalPaymentToLoan - interest, balanceAfterInflation))

\* Step 8: the new balance with its rounding guard (lines 175-176).
newBalanceOf(balanceAfterInflation, actualPrincipal) ==
    LET balance == balanceAfterInflation - actualPrincipal
    IN  IF balance < Unit \div 100 THEN 0 ELSE balance

\* Rent blended for as long as the schedule runs, whatever the rental window.
blendedOf_IgnoresDuration(c, month) ==
    /\ HasRental(c)
    /\ Get(Get(c, "rentalIncome", NoRental), "applyToLoan", FALSE)

\* The period's net rent when rent is blended into the payment (lines 146-149).
blendedOf(c, month) ==
    /\ HasRental(c)
    /\ WithinRentalDuration(Get(c, "rentalIncome", NoRental), month)
    /\ Get(Get(c, "rentalIncome", NoRental), "applyToLoan", FALSE)

netRentOf(c, l, month) ==
    IF blendedOf(c, month)
    THEN calculateNetRent(c.rentalIncome, l.cumulativeInflationFactor) ELSE 0

\* The entry pushed at lines 188-203.
EntryOf(c, i) ==
    LET monthlyFee == Get(c, "monthlyFee", 0)
    IN  [ month |-> i.month,
          date |-> i.date,
          balanceStart |-> i.balance + i.actualPrincipal,
          inflation |-> i.inflationAmount,
          interest |-> i.interest,
          principal |-> i.actualPrincipal,
          fee |-> monthlyFee,
          requiredPayment |-> i.requiredPayment,
          manualExtra |-> i.manualExtra,
          rentBasedExtra |-> i.rentBasedExtra,
          rentalContribution |-> i.rentalContribution,
          totalPaymentToLoan |-> Plus(i.totalPaymentToLoan, monthlyFee),
          userOutOfPocket |-> Plus(i.userOutOfPocket, monthlyFee),
          balance |-> i.balance ]

\* The tracking variables with the fee left out of the loan-paid total.
LocalsAfter_FeeOutsideLoanTotal(c, l, i) ==
    LET monthlyFee == Get(c, "monthlyFee", 0)
    IN  [ l EXCEPT
          !.month = i.month,
          !.balance = i.balance,
          !.totalInflation = @ + i.inflationAmount,
          !.totalInterest = @ + i.interest,
          !.totalRentalContribution =
              IF i.blended THEN @ + i.rentalContribution + i.rentBasedExtra ELSE @,
          !.totalPaidByUser = Plus(Plus(@, i.userOutOfPocket), monthlyFee),
          !.totalPaidToLoan = Plus(@, i.totalPaymentToLoan),
          !.totalFees = @ + monthlyFee,
          !.cumulativeInflationFactor = Times(@, One + l.monthlyInflationRate) ]

\* The tracking variables after the iteration (lines 84, 88, 161, 175-181, 206).
LocalsAfter(c, l, i) ==
    LET monthlyFee == Get(c, "monthlyFee", 0)
    IN  [ l EXCEPT
          !.month = i.month,
          !.balance = i.balance,
          !.totalInflation = @ + i.inflationAmount,
          !.totalInterest = @ + i.interest,
          !.totalRentalContribution =
              IF i.blended THEN @ + i.rentalContribution + i.rentBasedExtra ELSE @,
          !.totalPaidByUser = Plus(Plus(@, i.userOutOfPocket), monthlyFee),
          !.totalPaidToLoan = Plus(Plus(@, i.totalPaymentToLoan), monthlyFee),
          !.totalFees = @ + monthlyFee,
          !.cumulativeInflationFactor = Times(@, One + l.monthlyInflationRate) ]

\* The body of the while loop, once (lines 77-206).  The bound names are the
\* constants the body declares, in its order.
Step ==
    /\ pc = "loop"
    /\ LoopCondition
    /\ \E month \in {loc.month + 1} :
       \E inflationAmount \in {inflationAmountOf(loc)} :
       \E balanceAfterInflation \in {loc.balance + inflationAmount} :
       \E interest \in {interestOf(loc, balanceAfterInflation)} :
       \E requiredPayment \in
            {requiredPaymentOf(config, loc, month, balanceAfterInflation, interest)} :
       \E fixed \in {fixedPaymentOverride(Get(config, "fixedPayment", 0), requiredPayment,
                                          manualExtraOf(config, loc))} :
       \E netRent \in {netRentOf(config, loc, month)} :
       \E split \in {rentalSplit(blendedOf(config, month), netRent,
                                 fixed.paymentBeforeRental, fixed.manualExtra)} :
       \E totalPaymentToLoan \in
            {Plus(Plus(fixed.paymentBeforeRental, fixed.manualExtra),
                  split.rentBasedExtra)} :
       \E actualPrincipal \in
            {actualPrincipalOf(totalPaymentToLoan, interest, balanceAfterInflation)} :
       \E balance \in {newBalanceOf(balanceAfterInflation, actualPrincipal)} :
          /\ it' = [ month |-> month,
                     inflationAmount |-> inflationAmount,
                     balanceAfterInflation |-> balanceAfterInflation,
                     interest |-> interest,
                     requiredPayment |-> requiredPayment,
                     manualExtra |-> fixed.manualExtra,
                     paymentBeforeRental |-> fixed.paymentBeforeRental,
                     blended |-> blendedOf(config, month),
                     netRent |-> netRent,
                     rentalContribution |-> split.rentalContribution,
                     rentBasedExtra |-> split.rentBasedExtra,
                     userOutOfPocket |-> split.userOutOfPocket,
                     totalPaymentToLoan |-> totalPaymentToLoan,
                     actualPrincipal |-> actualPrincipal,
                     balance |-> balance,
                     date |-> paymentDateOf(loc.paymentStartDate, month),
                     cumulativeInflationFactor |-> loc.cumulativeInflationFactor ]
          /\ schedule' = Append(schedule, EntryOf(config, it'))
          /\ loc' = LocalsAfter(config, loc, it')
    /\ UNCHANGED <<config, pc, result, invest, metrics, now, earlier, manager>>

\* The summary of lines 209-227.
SummaryOf(c, l, s) ==
    [ originalLoan |-> c.loanAmount,
      loanType |-> Get(c, "loanType", "indexedAnnuity"),
      termMonths |-> l.month,
      totalPaidByUser |-> l.totalPaidByUser,
      totalPaidToLoan |-> l.totalPaidToLoan,
      totalInterest |-> l.totalInterest,
      totalInflation |-> l.totalInflation,
      totalFees |-> l.totalFees,
      totalRentalContribution |-> l.totalRentalContribution,
      firstPayment |-> IF Len(s) > 0 THEN s[1].totalPaymentToLoan ELSE 0,
      firstUserPayment |-> IF Len(s) > 0 THEN s[1].userOutOfPocket ELSE 0,
      lastPayment |-> IF Len(s) > 0 THEN s[Len(s)].totalPaymentToLoan ELSE 0 ]

\* The loop condition fails: return {schedule, summary}.
Return ==
    /\ pc = "loop"
    /\ ~LoopCondition
    /\ pc' = "done"
    /\ result' = [kind |-> "record", summary |-> SummaryOf(config, loc, schedule)]
    /\ UNCHANGED <<config, loc, it, schedule, invest, metrics, now, earlier, manager>>

\* ------------------------------------------------------------------ investment metrics

RECURSIVE SumField(_, _, _)
\* The sum of field f over the first n entries of s.
SumField(s, f, n) == IF n = 0 THEN 0 ELSE s[n][f] + SumField(s, f, n - 1)

\* The loan balance at sale with > in place of >=.
loanBalanceAtSaleOf_Strict(s, holdingYears) ==
    LET monthsHeld == holdingYears * 12
    IN  IF monthsHeld > Len(s) THEN 0
        ELSE IF monthsHeld \in DOMAIN s THEN s[monthsHeld].balance ELSE 0

\* The loan balance at sale read one entry too late.
loanBalanceAtSaleOf_NextMonth(s, holdingYears) ==
    LET monthsHeld == holdingYears * 12
    IN  IF monthsHeld >= Len(s) THEN 0
        ELSE IF monthsHeld + 1 \in DOMAIN s THEN s[monthsHeld + 1].balance ELSE 0

\* Lines 300-307: the loan balance at sale.  The source's index monthsHeld - 1
\* counts from 0; the sequence s counts from 1.
loanBalanceAtSaleOf(s, holdingYears) ==
    LET monthsHeld == holdingYears * 12
    IN  IF monthsHeld >= Len(s) THEN 0
        ELSE IF monthsHeld \in DOMAIN s THEN s[monthsHeld].balance ELSE 0

\* A point of the breakdown with the loan taken as repaid from the year of the
\* last entry on.
YearPoint_RepaidAtLastEntry(s, propertyPrice, appreciationRate, year) ==
    LET propertyValue == Times(propertyPrice, Pow(One + appreciationRate, year))
        monthIndex == year * 12 - 1
        balance ==
            IF year = 0 THEN (IF Len(s) > 0 THEN s[1].balanceStart ELSE 0)
            ELSE IF monthIndex + 1 >= Len(s) THEN 0
            ELSE s[monthIndex + 1].balance
    IN  [ year |-> year, propertyValue |-> propertyValue, loanBalance |-> balance,
          equity |-> propertyValue - balance ]

\* calculateYearlyBreakdown(schedule, propertyPrice, appreciationRate): one point.
YearPoint(s, propertyPrice, appreciationRate, year) ==
    LET propertyValue == Times(propertyPrice, Pow(One + appreciationRate, year))
        monthIndex == year * 12 - 1
        balance ==
            IF year = 0 THEN (IF Len(s) > 0 THEN s[1].balanceStart ELSE 0)
            ELSE IF monthIndex >= Len(s) THEN 0
            ELSE s[monthIndex + 1].balance
    IN  [ year |-> year, propertyValue |-> propertyValue, loanBalance |-> balance,
          equity |-> propertyValue - balance ]

calculateYearlyBreakdown(s, propertyPrice, appreciationRate) ==
    LET maxYears == (Len(s) + 11) \div 12
    IN  [ k \in 1..(maxYears + 1) |-> YearPoint(s, propertyPrice, appreciationRate, k - 1) ]

NaN == [nan |-> TRUE]
Num(v) == [nan |-> FALSE, value |-> v]

\* calculateInvestmentMetrics(config) for a config with a schedule (lines 279-359).
\* Percentages are counted in 1/Unit of a percent.
calculateInvestmentMetrics(c, s) ==
    LET downPayment == Times(c.propertyPrice, DivInt(c.downPaymentPercent * One, 100))
        totalInvested == downPayment + c.loanFee
        futureValue == Times(c.propertyPrice, Pow(One + c.appreciationRate, c.holdingYears))
        sellingCosts == Times(futureValue, c.sellingCostRate)
        monthsHeld == c.holdingYears * 12
        loanBalanceAtSale == loanBalanceAtSaleOf(s, c.holdingYears)
        equityAtSale == futureValue - loanBalanceAtSale - sellingCosts
        totalProfit == equityAtSale - totalInvested
        monthsToCount == Min(monthsHeld, Len(s))
        totalCashInvested == totalInvested + SumField(s, "userOutOfPocket", monthsToCount)
        totalCashFromRent == SumField(s, "rentalContribution", monthsToCount)
                             + SumField(s, "rentBasedExtra", monthsToCount)
        firstYearUserPayments == SumField(s, "userOutOfPocket", Min(12, Len(s)))
        firstYearRentalNet ==
            IF "grossRent" \in DOMAIN c.rentalIncome
            THEN calculateNetRent(c.rentalIncome, One) * 12 ELSE 0
        firstYearCashflow == firstYearRentalNet - firstYearUserPayments
        cashOnCashReturn ==
            IF totalInvested > 0 THEN SMulDiv(firstYearCashflow, 100 * Unit, totalInvested) ELSE 0
        totalROI ==
            IF totalInvested > 0 THEN SMulDiv(totalProfit, 100 * Unit, totalInvested) ELSE 0
        growth == One + SMulDiv(totalROI, One, 100 * Unit)
        annualizedROI ==
            IF c.holdingYears > 0
            THEN IF growth < 0 /\ c.holdingYears > 1 THEN NaN
                 ELSE IF growth < 0 THEN Num(SMulDiv(growth - One, 100 * Unit, One))
                 ELSE Num(SMulDiv(RootN[<<growth, c.holdingYears>>] - One, 100 * Unit, One))
            ELSE Num(0)
    IN  [ totalInvested |-> totalInvested,
          futurePropertyValue |-> futureValue,
          loanBalanceAtSale |-> loanBalanceAtSale,
          sellingCosts |-> sellingCosts,
          equityAtSale |-> equityAtSale,
          totalProfit |-> totalProfit,
          cashOnCashReturn |-> cashOnCashReturn,
          totalROI |-> totalROI,
          annualizedROI |-> annualizedROI,
          totalCashInvested |-> totalCashInvested,
          totalCashFromRent |-> totalCashFromRent,
          breakdownByYear |-> calculateYearlyBreakdown(s, c.propertyPrice, c.appreciationRate) ]

\* Holding periods tried on every schedule: 1..MaxHoldingYears years, and the
\* schedule's own length in years (the equity chart's call).
MaxHoldingYears == 2

\* The InvestmentConfigs the application builds for a schedule: a property
\* worth 5/4 of the loan, 20 % down.
InvestmentConfigs(c, s) ==
    [ propertyPrice : {5 * (c.loanAmount \div 4)},
      downPaymentPercent : {20},
      loanFee : {Unit},
      holdingYears : (1..MaxHoldingYears) \cup {Max(1, (Len(s) + 11) \div 12)},
      appreciationRate : {2 * (One \div 100)},
      sellingCostRate : {2 * (One \div 100)},
      rentalIncome : {Get(c, "rentalIncome", NoRental)} ]

\* The application passes the returned schedule to calculateInvestmentMetrics.
Analyse ==
    /\ pc = "done"
    /\ result.kind = "record"
    /\ \E c \in InvestmentConfigs(config, schedule) :
          /\ invest' = c
          /\ metrics' = calculateInvestmentMetrics(c, schedule)
    /\ pc' = "analysed"
    /\ UNCHANGED <<config, loc, it, schedule, result, now, earlier, manager>>

\* ------------------------------------------------------------------ inputs

\* Loan terms of the fully varied configurations: 1..MaxTermYears years.
MaxTermYears == 2

Kr(n) == n * Unit
Pct(n) == n * (One \div 100)

LoanTypes == {"indexedAnnuity", "nonIndexedAnnuity", "nonIndexedEqualPrincipal"}

\* rentalIncome records: the exact scenario of the specification (net rent 20
\* against a fixed payment of 15), a rent that covers the required payment for
\* six months with the default tax and vacancy rates, a rent that covers part
\* of it, and a rent that is not applied to the loan.
Rentals ==
    { NoRental,
      [grossRent |-> Kr(20), taxRate |-> 0, vacancyRate |-> 0, operatingCosts |-> 0,
       indexed |-> FALSE, indexCosts |-> FALSE, applyToLoan |-> TRUE],
      [grossRent |-> Kr(15), operatingCosts |-> Kr(1), applyToLoan |-> TRUE,
       rentalDurationMonths |-> 6],
      [grossRent |-> Kr(5), taxRate |-> Pct(11), vacancyRate |-> Pct(5),
       operatingCosts |-> Kr(1), indexed |-> TRUE, indexCosts |-> FALSE,
       applyToLoan |-> TRUE, rentalDurationMonths |-> 18],
      [grossRent |-> Kr(15), operatingCosts |-> Kr(1), applyToLoan |-> FALSE] }

Plain(c) == [c EXCEPT !.extraPayment = 0, !.indexExtraPayment = FALSE,
                      !.fixedPayment = 0, !.rentalIncome = NoRental]

ConfigShape ==
    [ loanAmount : {Kr(120)}, annualInterestRate : {Pct(6)}, annualInflationRate : {Pct(4)},
      loanTermYears : {1}, monthlyFee : {0}, loanType : LoanTypes,
      extraPayment : {0}, indexExtraPayment : {FALSE}, fixedPayment : {0},
      rentalIncome : {NoRental}, acceleratedPayoff : BOOLEAN ]

\* Every loan type and policy with every rate, term, amount and fee, and no
\* extra payment, fixed payment or rental income.
AmortizationConfigs ==
    { [c EXCEPT !.loanAmount = a, !.annualInterestRate = r, !.annualInflationRate = i,
                !.loanTermYears = t, !.monthlyFee = f] :
        c \in ConfigShape, a \in {Kr(120), Kr(1200)}, r \in {0, Pct(6)}, i \in {0, Pct(4)},
        t \in 1..MaxTermYears, f \in {0, Kr(1)} }

\* Every loan type and policy with every combination of fee, extra payment,
\* fixed payment and rental income.
PaymentConfigs ==
    { [c EXCEPT !.loanTermYears = t, !.monthlyFee = f, !.extraPayment = e[1],
                !.indexExtraPayment = e[2], !.fixedPayment = x, !.rentalIncome = rent] :
        c \in ConfigShape, t \in 1..MaxTermYears, f \in {0, Kr(1)},
        e \in {<<0, FALSE>>, <<Kr(2), FALSE>>, <<Kr(2), TRUE>>},
        x \in {0, Kr(8), Kr(15)}, rent \in Rentals }

\* Terms beyond the 600-period cap, and the ten-year example of the specification.
LongConfigs ==
    { [c EXCEPT !.loanAmount = Kr(1200), !.loanTermYears = t] :
        c \in ConfigShape, t \in {10, 51} }

\* Calls that the guard of line 28 turns away.
RejectedConfigs ==
    { [c EXCEPT !.loanAmount = a] : c \in ConfigShape, a \in {0, 0 - Kr(120)} }

\* Loans around the 0.01 threshold of lines 76 and 176 under the legacy
\* policy, repaid 0.01 at a time: half a cent, one, two and three cents.
EdgeConfigs ==
    { [c EXCEPT !.loanAmount = a, !.annualInterestRate = 0, !.annualInflationRate = 0,
                !.fixedPayment = Unit \div 100, !.acceleratedPayoff = TRUE] :
        c \in ConfigShape,
        a \in {Unit \div 200, Unit \div 100, 2 * (Unit \div 100), 3 * (Unit \div 100)} }

Configs ==
    AmortizationConfigs \cup PaymentConfigs \cup LongConfigs \cup RejectedConfigs
        \cup EdgeConfigs

Init ==
    /\ config \in Configs
    /\ pc = "call"
    /\ loc = [none |-> TRUE]
    /\ it = NoIteration
    /\ schedule = <<>>
    /\ result = [kind |-> "pending"]
    /\ invest = [none |-> TRUE]
    /\ metrics = [none |-> TRUE]
    /\ now = FirstClock
    /\ earlier = NoEarlier
    /\ NoManager

\* ------------------------------------------------------------------ calculateAnnuityPayment alone

\* Principals 0..MaxPrincipal (in steps that are not multiples of the months)
\* and 1..MaxMonths periods.
MaxPrincipal == 12
MaxMonths == 12

AnnuityInputs ==
    [ principal : { k * Kr(7) + k : k \in 0..MaxPrincipal },
      monthlyRate : {0, Pct(1) \div 2},
      months : 1..MaxMonths ]

InitAnnuity ==
    /\ config \in AnnuityInputs
    /\ pc = "call"
    /\ loc = [none |-> TRUE]
    /\ it = NoIteration
    /\ schedule = <<>>
    /\ result = [kind |-> "pending"]
    /\ invest = [none |-> TRUE]
    /\ metrics = [none |-> TRUE]
    /\ now = FirstClock
    /\ earlier = NoEarlier
    /\ NoManager

\* A call of LoanCalculator.calculateAnnuityPayment(principal, monthlyRate, months).
ApplyAnnuity ==
    /\ pc = "call"
    /\ pc' = "done"
    /\ result' = [kind |-> "number",
                  value |-> calculateAnnuityPayment(config.principal, config.monthlyRate,
                                                    config.months)]
    /\ UNCHANGED <<config, loc, it, schedule, invest, metrics, now, earlier, manager>>

NextAnnuity == ApplyAnnuity
SpecAnnuity == InitAnnuity /\ [][NextAnnuity]_vars

\* ------------------------------------------------------------------ calculateNetRent alone

\* Inflation factors 1, 1.5, ... in MaxFactorSteps steps of a half.
MaxFactorSteps == 2

\* A rental record with every field, and the optional fields a caller may omit.
FullRentals ==
    [ grossRent : {0, Kr(5), Kr(20)},
      taxRate : {0, Pct(11), Pct(22)},
      vacancyRate : {Pct(5), Pct(10)},
      operatingCosts : {Kr(1), Kr(30)},
      indexed : BOOLEAN,
      indexCosts : BOOLEAN ]

OptionalRentalFields ==
    { {}, {"taxRate"}, {"vacancyRate"}, {"taxRate", "vacancyRate"}, {"operatingCosts"},
      {"indexed"}, {"indexCosts"}, {"indexed", "indexCosts"},
      {"taxRate", "vacancyRate", "operatingCosts", "indexed", "indexCosts"} }

\* The record r without its fields in omitted.
Without(r, omitted) == [ k \in (DOMAIN r) \ omitted |-> r[k] ]

\* Calls calculateNetRent(rental, inflationFactor) and calculateNetRent(rental).
NetRentInputs ==
    { [rental |-> Without(r, o), inflationFactor |-> One + k * (One \div 2)] :
        r \in FullRentals, o \in OptionalRentalFields, k \in 0..MaxFactorSteps }
    \cup { [rental |-> Without(r, o)] : r \in FullRentals, o \in OptionalRentalFields }

InitNetRent ==
    /\ config \in NetRentInputs
    /\ pc = "call"
    /\ loc = [none |-> TRUE]
    /\ it = NoIteration
    /\ schedule = <<>>
    /\ result = [kind |-> "pending"]
    /\ invest = [none |-> TRUE]
    /\ metrics = [none |-> TRUE]
    /\ now = FirstClock
    /\ earlier = NoEarlier
    /\ NoManager

\* A call of LoanCalculator.calculateNetRent; the factor defaults to 1.
ApplyNetRent ==
    /\ pc = "call"
    /\ pc' = "done"
    /\ result' = [kind |-> "number",
                  value |-> calculateNetRent(config.rental,
                                             Get(config, "inflationFactor", One))]
    /\ UNCHANGED <<config, loc, it, schedule, invest, metrics, now, earlier, manager>>

NextNetRent == ApplyNetRent
SpecNetRent == InitNetRent /\ [][NextNetRent]_vars

\* ------------------------------------------------------------------ calculateSchedule called twice

\* The clock runs from FirstClock to the end of month MaxClockMonth.
MaxClockMonth == 1

Clocks == [ month : FirstClock.month..MaxClockMonth, day : {2, 3}, time : {1, 2} ]

\* The record c with a startDate.
WithStartDate(c, d) ==
    [ k \in (DOMAIN c) \cup {"startDate"} |-> IF k = "startDate" THEN d ELSE c[k] ]

\* Configurations as the application builds them (no startDate), the same
\* with a startDate, and one that is turned away.
TwiceConfigs ==
    ConfigShape
    \cup { WithStartDate(c, [month |-> 5, day |-> 17, time |-> 2]) : c \in ConfigShape }
    \cup { [c EXCEPT !.loanAmount = 0] : c \in ConfigShape }

InitTwice ==
    /\ config \in TwiceConfigs
    /\ pc = "call"
    /\ loc = [none |-> TRUE]
    /\ it = NoIteration
    /\ schedule = <<>>
    /\ result = [kind |-> "pending"]
    /\ invest = [none |-> TRUE]
    /\ metrics = [none |-> TRUE]
    /\ now = FirstClock
    /\ earlier = NoEarlier
    /\ NoManager

\* The caller keeps what the first invocation returned and, at the same or a
\* later time, calls calculateSchedule again with the same configuration object.
CallAgain ==
    /\ pc = "done"
    /\ earlier = NoEarlier
    /\ earlier' = [config |-> config, schedule |-> schedule, result |-> result]
    /\ now' \in Clocks
    /\ pc' = "call"
    /\ loc' = [none |-> TRUE]
    /\ it' = NoIteration
    /\ schedule' = <<>>
    /\ result' = [kind |-> "pending"]
    /\ UNCHANGED <<config, invest, metrics, manager>>

NextTwice == ReturnNull \/ Enter \/ Step \/ Return \/ CallAgain
SpecTwice == InitTwice /\ [][NextTwice]_vars

\* ------------------------------------------------------------------ calculateSchedule on a stored configuration

\* Rental incomes with an unlimited, an omitted and a finite rental window.
JsonRentals ==
    { NoRental,
      [grossRent |-> Kr(20), taxRate |-> 0, vacancyRate |-> 0, operatingCosts |-> 0,
       indexed |-> FALSE, indexCosts |-> FALSE, applyToLoan |-> TRUE,
       rentalDurationMonths |-> Infinity],
      [grossRent |-> Kr(5), operatingCosts |-> Kr(1), applyToLoan |-> TRUE],
      [grossRent |-> Kr(15), operatingCosts |-> Kr(1), applyToLoan |-> TRUE,
       rentalDurationMonths |-> 6] }

\* Configurations with every field, with a startDate, with the optional
\* fields left out, and one that is turned away.
JsonConfigs ==
    { [c EXCEPT !.rentalIncome = rent, !.extraPayment = Kr(2)] :
        c \in ConfigShape, rent \in JsonRentals }
    \cup { WithStartDate([c EXCEPT !.rentalIncome = rent],
                         [month |-> 5, day |-> 17, time |-> 2]) :
             c \in ConfigShape, rent \in JsonRentals }
    \cup { Without(c, {"monthlyFee", "extraPayment", "indexExtraPayment", "fixedPayment",
                       "rentalIncome", "acceleratedPayoff"}) : c \in ConfigShape }
    \cup { [c EXCEPT !.loanAmount = 0] : c \in ConfigShape }

InitJson ==
    /\ config \in JsonConfigs
    /\ pc = "call"
    /\ loc = [none |-> TRUE]
    /\ it = NoIteration
    /\ schedule = <<>>
    /\ result = [kind |-> "pending"]
    /\ invest = [none |-> TRUE]
    /\ metrics = [none |-> TRUE]
    /\ now = FirstClock
    /\ earlier = NoEarlier
    /\ NoManager

\* The caller keeps what calculateSchedule(config) returned and calls
\* calculateSchedule with the stored copy of the configuration.
CallWithCopy ==
    /\ pc = "done"
    /\ earlier = NoEarlier
    /\ earlier' = [config |-> config, schedule |-> schedule, result |-> result]
    /\ config' = jsonRoundTrip(config)
    /\ pc' = "call"
    /\ loc' = [none |-> TRUE]
    /\ it' = NoIteration
    /\ schedule' = <<>>
    /\ result' = [kind |-> "pending"]
    /\ UNCHANGED <<invest, metrics, now, manager>>

NextJson == ReturnNull \/ Enter \/ Step \/ Return \/ CallWithCopy
SpecJson == InitJson /\ [][NextJson]_vars

\* ------------------------------------------------------------------ calculateSchedule on invalid configurations

\* A non-positive loan amount, a non-positive term or a non-positive rate.
invalid(c) == c.loanAmount <= 0 \/ c.loanTermYears <= 0 \/ c.annualInterestRate <= 0

\* Every loan type and policy with a loan amount of 0 or below, a term of 0
\* years or a rate of 0, alone and together, and the valid configuration.
InvalidConfigs ==
    { [c EXCEPT !.loanAmount = a, !.loanTermYears = t, !.annualInterestRate = r] :
        c \in ConfigShape, a \in {0 - Kr(120), 0, Kr(120)}, t \in {0, 1}, r \in {0, Pct(6)} }

InitInvalid ==
    /\ config \in InvalidConfigs
    /\ pc = "call"
    /\ loc = [none |-> TRUE]
    /\ it = NoIteration
    /\ schedule = <<>>
    /\ result = [kind |-> "pending"]
    /\ invest = [none |-> TRUE]
    /\ metrics = [none |-> TRUE]
    /\ now = FirstClock
    /\ earlier = NoEarlier
    /\ NoManager

NextInvalid == ReturnNull \/ Enter \/ Step \/ Return
SpecInvalid == InitInvalid /\ [][NextInvalid]_vars

\* ------------------------------------------------------------------ calculateSchedule under both policies

\* Loans without extra payment, fixed payment or rental income, under the
\* legacy policy: every loan type, with and without interest, one and two
\* years, amounts that divide evenly and unevenly over the term, an amount
\* whose monthly principal is below 0.01, and one that is turned away.
PolicyConfigs ==
    { [c EXCEPT !.loanAmount = a, !.annualInterestRate = r, !.loanTermYears = t,
                !.acceleratedPayoff = TRUE] :
        c \in ConfigShape, a \in {0, 10 * (Unit \div 100), Kr(100), Kr(120)},
        r \in {0, Pct(6)}, t \in 1..MaxTermYears }

InitPolicies ==
    /\ config \in PolicyConfigs
    /\ pc = "call"
    /\ loc = [none |-> TRUE]
    /\ it = NoIteration
    /\ schedule = <<>>
    /\ result = [kind |-> "pending"]
    /\ invest = [none |-> TRUE]
    /\ metrics = [none |-> TRUE]
    /\ now = FirstClock
    /\ earlier = NoEarlier
    /\ NoManager

\* The caller keeps what the legacy policy returned and calls calculateSchedule
\* with the same configuration and acceleratedPayoff = false.
CallOtherPolicy ==
    /\ pc = "done"
    /\ earlier = NoEarlier
    /\ earlier' = [config |-> config, schedule |-> schedule, result |-> result]
    /\ config' = [config EXCEPT !.acceleratedPayoff = FALSE]
    /\ pc' = "call"
    /\ loc' = [none |-> TRUE]
    /\ it' = NoIteration
    /\ schedule' = <<>>
    /\ result' = [kind |-> "pending"]
    /\ UNCHANGED <<invest, metrics, now, manager>>

NextPolicies == ReturnNull \/ Enter \/ Step \/ Return \/ CallOtherPolicy
SpecPolicies == InitPolicies /\ [][NextPolicies]_vars

\* ------------------------------------------------------------------ ScenarioManager

\* At most MaxScenarios scenarios are kept, saved at instants 1..MaxSaveTime.
MaxScenarios == 2
MaxSaveTime == 2

ScenarioNames == {"A", "B"}

\* Parameter bags handed to add and update: one of finite numbers and one
\* with a number that JSON cannot write.
ScenarioParams ==
    { [loanAmount |-> Kr(120), loanTermYears |-> 1, rentalDurationMonths |-> 12],
      [loanAmount |-> Kr(120), loanTermYears |-> 1, rentalDurationMonths |-> Infinity] }

\* The scenario that add and update build: {name, params, savedAt: new Date().toISOString()}.
Scenario(name, params, savedAt) == [name |-> name, params |-> params, savedAt |-> savedAt]

\* JSON.stringify(this.scenarios), held as the value JSON.parse gives back for
\* that text: strings stay, a number that is not finite is written as null.
stringify(list) ==
    [ k \in DOMAIN list |->
        Scenario(list[k].name, jsonRoundTrip(list[k].params), list[k].savedAt) ]

\* load(): JSON.parse(localStorage.getItem(storageKey)) || [], getItem giving
\* null when the key holds no item.
load(stored) == IF stored = NoItem THEN <<>> ELSE stored[1]

\* save(): setItem stores the text, or throws and leaves the storage as it
\* was; the exception is caught and the callers drop the returned flag.
save(list, stored, written) == IF written THEN <<stringify(list)>> ELSE stored

\* get(index) and getAll().
undefined == [undefined |-> TRUE]
get(index) == IF index + 1 \in DOMAIN scenarios THEN scenarios[index + 1] ELSE undefined
getAll == scenarios

\* this.scenarios.splice(index, 1) for an index >= 0.
splice(list, index) ==
    IF index >= Len(list) THEN list
    ELSE [ k \in 1..(Len(list) - 1) |-> IF k <= index THEN list[k] ELSE list[k + 1] ]

\* The calculator is not running while the scenario list is edited.
NoCall ==
    /\ config = [none |-> TRUE]
    /\ pc = "idle"
    /\ loc = [none |-> TRUE]
    /\ it = NoIteration
    /\ schedule = <<>>
    /\ result = [kind |-> "pending"]
    /\ invest = [none |-> TRUE]
    /\ metrics = [none |-> TRUE]
    /\ now = FirstClock
    /\ earlier = NoEarlier

calculator == <<config, pc, loc, it, schedule, result, invest, metrics, now, earlier>>

\* constructor: this.scenarios = this.load(), on an empty storage or on the
\* list an earlier session stored.
InitScenarios ==
    /\ NoCall
    /\ storage \in {NoItem} \cup { <<stringify(<<Scenario(n, p, 1)>>)>> :
                                    n \in ScenarioNames, p \in ScenarioParams }
    /\ scenarios = load(storage)
    /\ added = NoAdded

\* add(name, params): push, save, return the new index.
add(name, params, savedAt, written) ==
    /\ Len(scenarios) < MaxScenarios
    /\ \E pushed \in {Append(scenarios, Scenario(name, params, savedAt))} :
          /\ scenarios' = pushed
          /\ storage' = save(pushed, storage, written)
          /\ added' = [index |-> Len(pushed) - 1, scenario |-> pushed[Len(pushed)]]
    /\ UNCHANGED calculator

\* remove(index): splice, save.
remove(index, written) ==
    /\ \E spliced \in {splice(scenarios, index)} :
          /\ scenarios' = spliced
          /\ storage' = save(spliced, storage, written)
    /\ added' = NoAdded
    /\ UNCHANGED calculator

\* update(index, name, params): replace and save when the index holds a scenario.
update(index, name, params, savedAt, written) ==
    /\ IF index + 1 \in DOMAIN scenarios
       THEN \E replaced \in {[scenarios EXCEPT ![index + 1] = Scenario(name, params, savedAt)]} :
                /\ scenarios' = replaced
                /\ storage' = save(replaced, storage, written)
       ELSE UNCHANGED <<scenarios, storage>>
    /\ added' = NoAdded
    /\ UNCHANGED calculator

\* clear(): empty the list, save.
clear(written) ==
    /\ scenarios' = <<>>
    /\ storage' = save(<<>>, storage, written)
    /\ added' = NoAdded
    /\ UNCHANGED calculator

NextScenarios ==
    \/ \E n \in ScenarioNames, p \in ScenarioParams, t \in 1..MaxSaveTime, w \in BOOLEAN :
          add(n, p, t, w)
    \/ \E i \in 0..MaxScenarios, w \in BOOLEAN : remove(i, w)
    \/ \E i \in 0..MaxScenarios, n \in ScenarioNames, p \in ScenarioParams,
          t \in 1..MaxSaveTime, w \in BOOLEAN : update(i, n, p, t, w)
    \/ \E w \in BOOLEAN : clear(w)

SpecScenarios == InitScenarios /\ [][NextScenarios]_vars

\* ------------------------------------------------------------------ calculateSchedule and its caller

Next == ReturnNull \/ Enter \/ Step \/ Return \/ Analyse
Spec == Init /\ [][Next]_vars

\* calculateSchedule and its caller run synchronously on one thread: a
\* statement that can run does run.
SpecFair == Init /\ [][Next]_vars /\ WF_vars(Next)
\* ------------------------------------------------------------------ properties

\* An entry has been pushed; Last is the entry of the latest iteration.
Stepped == Len(schedule) > 0
Last == schedule[Len(schedule)]
\* The balance the latest iteration started from.
PrevBalance == IF Len(schedule) = 1 THEN config.loanAmount ELSE schedule[Len(schedule) - 1].balance
Returned == pc \in {"done", "analysed"}
Abs(v) == IF v < 0 THEN 0 - v ELSE v
\* 0.01 currency units.
Cent == Unit \div 100

\* No extra payment, no fixed payment, no rental blending.
NoExtras(c) ==
    /\ Get(c, "extraPayment", 0) = 0
    /\ Get(c, "fixedPayment", 0) = 0
    /\ ~(HasRental(c) /\ Get(Get(c, "rentalIncome", NoRental), "applyToLoan", FALSE))

\* C1: for every configuration with loanAmount > 0 the schedule has at most
\* 600 entries and every entry's balance is >= 0.
C1_ScheduleBounded ==
    /\ Len(schedule) <= 600
    /\ Stepped => Last.balance >= 0

\* The safety cap is what ends the loop: 600 entries and a balance still owed.
C1_Witness ==
    /\ Returned /\ result.kind = "record"
    /\ Len(schedule) = 600
    /\ Last.balance > 0

\* C2: calculateSchedule returns null, with no schedule entry, exactly when
\* loanAmount <= 0; for loanAmount > 0 it returns a {schedule, summary} record.
C2_NullExactlyWhenNonPositive ==
    Returned =>
        /\ (result.kind = "null") <=> (config.loanAmount <= 0)
        /\ (result.kind = "record") <=> (config.loanAmount > 0)
        /\ result.kind = "null" => schedule = <<>>

\* The boundary loanAmount = 0 is turned away.
C2_Witness ==
    /\ pc = "done" /\ config.loanAmount = 0
    /\ result.kind = "null" /\ schedule = <<>>

\* A fixed-term annuity without extras.
FixedTermAnnuity(c) ==
    /\ ~Get(c, "acceleratedPayoff", FALSE)
    /\ ~isEqualPrincipal(c)
    /\ NoExtras(c)

SumOfPrincipal == SumField(schedule, "principal", Len(schedule))

\* C3 as stated: for a fixed-term annuity (indexed with any inflation rate, or
\* non-indexed) without extras the principal of all entries sums to loanAmount
\* within 1 currency unit.
C3_SumOfPrincipalIsLoan ==
    (Returned /\ result.kind = "record" /\ FixedTermAnnuity(config))
        => Abs(SumOfPrincipal - config.loanAmount) <= Unit

\* C3 amended: for a fixed-term annuity without extras whose term is within
\* the 600-period cap, the principal of all entries sums to loanAmount plus
\* the indexation added to the balance (summary.totalInflation) within 1
\* currency unit; that is loanAmount itself when nothing is indexed.
C3_SumOfPrincipalIsLoanPlusInflation ==
    (Returned /\ result.kind = "record" /\ FixedTermAnnuity(config)
        /\ config.loanTermYears * 12 <= 600)
        => /\ Abs(SumOfPrincipal - config.loanAmount - result.summary.totalInflation) <= Unit
           /\ result.summary.totalInflation = 0
                => Abs(SumOfPrincipal - config.loanAmount) <= Unit

\* An indexed annuity under inflation has run its fixed term: the principal
\* paid exceeds the loan by more than a currency unit.
C3_Witness ==
    /\ pc = "done" /\ result.kind = "record" /\ FixedTermAnnuity(config)
    /\ isIndexed(config) /\ config.annualInflationRate > 0
    /\ Len(schedule) = config.loanTermYears * 12
    /\ SumOfPrincipal > config.loanAmount + Unit

\* C4: for EqualPrincipal without extras, under both policies, every entry's
\* principal is loanAmount / (loanTermYears * 12), up to the rounding of one
\* division (0.01 at most); 1200 over 10 years gives exactly 10 every period.
C4_EqualPrincipalConstant ==
    (Stepped /\ isEqualPrincipal(config) /\ NoExtras(config))
        => /\ Abs(Last.principal * (config.loanTermYears * 12) - config.loanAmount)
                <= Cent * (config.loanTermYears * 12)
           /\ (config.loanAmount = Kr(1200) /\ config.loanTermYears = 10)
                => Last.principal = Kr(10)

\* The ten-year example has been paid off under the legacy policy.
C4_Witness ==
    /\ pc = "done" /\ isEqualPrincipal(config) /\ NoExtras(config)
    /\ config.acceleratedPayoff
    /\ config.loanAmount = Kr(1200) /\ config.loanTermYears = 10
    /\ Len(schedule) = 120 /\ Last.principal = Kr(10) /\ Last.balance = 0

\* The net rent of the latest period, whether or not it was blended.
PeriodNetRent ==
    calculateNetRent(config.rentalIncome, it.cumulativeInflationFactor)

AppliesRent(c) == HasRental(c) /\ Get(Get(c, "rentalIncome", NoRental), "applyToLoan", FALSE)

\* C5 as stated: whenever applyToLoan is set and the period's net rent is at
\* least its requiredPayment, the entry's userOutOfPocket is its manualExtra.
C5_RentCoversRequired ==
    (Stepped /\ AppliesRent(config) /\ PeriodNetRent >= Last.requiredPayment)
        => Last.userOutOfPocket = Last.manualExtra

\* C5 amended: whenever rental blending is active in the period (applyToLoan
\* set and month <= rentalDurationMonths) and the net rent is at least the
\* payment before rental (requiredPayment, or fixedPayment when that is
\* larger), the entry's userOutOfPocket is its manualExtra plus the monthly fee.
C5_RentCoversPayment ==
    (Stepped /\ AppliesRent(config)
        /\ WithinRentalDuration(config.rentalIncome, Last.month)
        /\ PeriodNetRent >= Max(Last.requiredPayment,
                                IF Get(config, "fixedPayment", 0) > 0
                                THEN config.fixedPayment ELSE 0))
        => Last.userOutOfPocket = Last.manualExtra + Get(config, "monthlyFee", 0)

\* Rent covers the payment of a period that carries a manual extra and a fee.
C5_Witness ==
    /\ Stepped /\ AppliesRent(config)
    /\ WithinRentalDuration(config.rentalIncome, Last.month)
    /\ PeriodNetRent >= Last.requiredPayment
    /\ Get(config, "fixedPayment", 0) = 0
    /\ Last.manualExtra > 0 /\ Last.fee > 0
    /\ Last.userOutOfPocket = Last.manualExtra + Last.fee

\* The payment the rent is compared with: fixedPayment when it overrides.
PeriodPayment ==
    IF Get(config, "fixedPayment", 0) > Last.requiredPayment
    THEN config.fixedPayment ELSE Last.requiredPayment

\* C6: in every period where rental blending is active, net rent is compared
\* with the payment: if it covers the payment, rentalContribution is the
\* payment and rentBasedExtra the surplus; otherwise rentalContribution is the
\* net rent, rentBasedExtra is 0 and the user pays payment - netRent +
\* manualExtra (the entry adds the monthly fee).  Net rent 20 against a
\* payment of 15 without manual extra gives 15 / 5 / 0.
C6_RentalSplit ==
    (Stepped /\ AppliesRent(config)
        /\ WithinRentalDuration(config.rentalIncome, Last.month))
        => /\ IF PeriodNetRent >= PeriodPayment
              THEN /\ Last.rentalContribution = PeriodPayment
                   /\ Last.rentBasedExtra = PeriodNetRent - PeriodPayment
              ELSE /\ Last.rentalContribution = PeriodNetRent
                   /\ Last.rentBasedExtra = 0
                   /\ Last.userOutOfPocket - Last.fee
                        = PeriodPayment - PeriodNetRent + Last.manualExtra
           /\ (PeriodNetRent = Kr(20) /\ PeriodPayment = Kr(15)
                 /\ Last.manualExtra = 0 /\ Last.fee = 0)
                => /\ Last.rentalContribution = Kr(15)
                   /\ Last.rentBasedExtra = Kr(5)
                   /\ Last.userOutOfPocket = 0

\* The scenario of the specification: net rent 20, payment 15, no manual extra.
C6_Witness ==
    /\ Stepped /\ AppliesRent(config)
    /\ PeriodNetRent = Kr(20) /\ PeriodPayment = Kr(15)
    /\ Last.manualExtra = 0 /\ Last.fee = 0
    /\ Last.rentalContribution = Kr(15) /\ Last.rentBasedExtra = Kr(5)
    /\ Last.userOutOfPocket = 0

\* C7 as stated: every entry has principal = max(0, min(totalPaymentToLoan -
\* interest, balanceAfterInflation)) in terms of its own fields, for every
\* monthlyFee.
C7_PrincipalFromEntryFields ==
    Stepped => Last.principal
                 = Max(0, Min(Last.totalPaymentToLoan - Last.interest,
                              PrevBalance + Last.inflation))

\* C7 amended: every entry has principal = max(0, min(totalPaymentToLoan - fee
\* - interest, balanceAfterInflation)): the entry's totalPaymentToLoan
\* includes the monthly fee, which pays no principal.
C7_PrincipalNetOfFee ==
    Stepped => Last.principal
                 = Max(0, Min(Last.totalPaymentToLoan - Last.fee - Last.interest,
                              PrevBalance + Last.inflation))

\* A period with a fee whose payment is cut down to the balance that is left.
C7_Witness ==
    /\ Stepped /\ Last.fee > 0
    /\ Last.totalPaymentToLoan - Last.fee - Last.interest > PrevBalance + Last.inflation
    /\ Last.principal = PrevBalance + Last.inflation
    /\ Last.principal > 0

\* C8: indexation is applied before interest.  The entry's inflation amount
\* is the previous balance times the monthly inflation rate (the twelfth root
\* of 1 + annualInflationRate, less 1; 0 for non-indexed loan types) and its
\* interest is (previous balance + inflation amount) * annualInterestRate / 12;
\* month 1 of a non-indexed loan has interest loanAmount * annualInterestRate / 12.
C8_IndexationBeforeInterest ==
    Stepped =>
        /\ isIndexed(config)
             => /\ Last.inflation = Times(PrevBalance, loc.monthlyInflationRate)
                /\ Pow(One + loc.monthlyInflationRate, 12) <= One + config.annualInflationRate
                /\ Pow(One + loc.monthlyInflationRate + 1, 12) > One + config.annualInflationRate
        /\ ~isIndexed(config) => Last.inflation = 0
        /\ Last.interest
             = Times(PrevBalance + Last.inflation, DivInt(config.annualInterestRate, 12))
        /\ (Last.month = 1 /\ ~isIndexed(config))
             => Last.interest = Times(config.loanAmount, DivInt(config.annualInterestRate, 12))

\* A later period of an indexed loan: the interest is charged on more than
\* the previous balance.
C8_Witness ==
    /\ Stepped /\ isIndexed(config) /\ Last.month > 1
    /\ Last.inflation > 0
    /\ Last.interest > Times(PrevBalance, DivInt(config.annualInterestRate, 12))

C10_RepaidAtOrAfterTerm ==
    (pc = "analysed" /\ invest.holdingYears * 12 >= result.summary.termMonths)
        => metrics.loanBalanceAtSale = 0

\* The holding period ends with the last entry of a schedule that the cap cut
\* short, so that entry's balance is not 0.
C10_Witness ==
    /\ pc = "analysed"
    /\ invest.holdingYears * 12 = result.summary.termMonths
    /\ Last.balance > 0
    /\ metrics.loanBalanceAtSale = 0

\* The entry at the source's index holdingYears * 12 - 1 (the sequence counts from 1).
EntryAtSale == schedule[invest.holdingYears * 12]

\* C11 as stated: whenever the index holdingYears * 12 - 1 lies inside the
\* schedule (index <= length - 1), loanBalanceAtSale is that entry's balance.
C11_BalanceAtSaleInsideSchedule ==
    (pc = "analysed" /\ invest.holdingYears * 12 - 1 <= Len(schedule) - 1)
        => metrics.loanBalanceAtSale = EntryAtSale.balance

\* C11 amended: loanBalanceAtSale is schedule[holdingYears * 12 - 1].balance
\* whenever holdingYears * 12 is less than the schedule length, and 0 whenever
\* holdingYears * 12 is at least the schedule length, the last entry's index
\* included; the yearly breakdown's loanBalance for that year is the entry's
\* balance whenever the index lies inside the schedule.
C11_BalanceAtSaleBeforeLastEntry ==
    pc = "analysed" =>
        /\ invest.holdingYears * 12 < Len(schedule)
             => metrics.loanBalanceAtSale = EntryAtSale.balance
        /\ invest.holdingYears * 12 >= Len(schedule)
             => metrics.loanBalanceAtSale = 0
        /\ invest.holdingYears * 12 <= Len(schedule)
             => metrics.breakdownByYear[invest.holdingYears + 1].loanBalance
                  = EntryAtSale.balance

\* A sale after one year of a two-year loan: the balance owed is entry 12's.
C11_Witness ==
    /\ pc = "analysed"
    /\ invest.holdingYears = 1 /\ Len(schedule) = 24
    /\ schedule[12].balance > 0
    /\ schedule[13].balance # schedule[12].balance
    /\ metrics.loanBalanceAtSale = schedule[12].balance

\* C12: with acceleratedPayoff = false the schedule has exactly
\* min(loanTermYears * 12, 600) entries for any extraPayment, fixedPayment and
\* rental configuration, entry k carries month = k, and summary.termMonths is
\* that count.
C12_FixedTermLength ==
    /\ \A k \in DOMAIN schedule : schedule[k].month = k
    /\ (Returned /\ result.kind = "record" /\ ~Get(config, "acceleratedPayoff", FALSE)
          /\ config.loanTermYears >= 1)
         => /\ Len(schedule) = Min(config.loanTermYears * 12, 600)
            /\ result.summary.termMonths = Len(schedule)

\* A fixed payment repays the loan before the term ends, and the schedule
\* still runs the whole term.
C12_Witness ==
    /\ pc = "done" /\ result.kind = "record"
    /\ ~config.acceleratedPayoff /\ config.fixedPayment > 0
    /\ Len(schedule) = config.loanTermYears * 12
    /\ schedule[Len(schedule) - 2].balance = 0
    /\ result.summary.termMonths = Len(schedule)

\* C13: calculateSchedule terminates for every configuration with
\* loanAmount > 0, returning a record and no error; under acceleratedPayoff, a
\* balance that has not fallen to 0.01 or below when the loop ends means the
\* loop stopped at the safety cap, with a schedule of exactly 600 entries.
C13_TerminatesAtCap ==
    /\ <>Returned
    /\ [](Returned /\ config.loanAmount > 0
            => result.kind = "record" /\ Len(schedule) <= 600)
    /\ [](Returned /\ Stepped /\ Get(config, "acceleratedPayoff", FALSE)
            /\ Last.balance > Cent
            => result.kind = "record" /\ Len(schedule) = 600)

\* A payoff-driven indexed loan whose balance is still owed after 600 periods.
C13_Witness ==
    /\ pc = "done" /\ result.kind = "record"
    /\ config.acceleratedPayoff /\ isIndexed(config)
    /\ Len(schedule) = 600
    /\ \A k \in DOMAIN schedule : schedule[k].balance > Cent

\* The extra payment as configured: extraPayment, scaled by the period's
\* cumulative inflation factor when indexExtraPayment is set.
ConfiguredExtra ==
    IF Get(config, "extraPayment", 0) <= 0 THEN 0
    ELSE IF Get(config, "indexExtraPayment", FALSE)
    THEN Times(config.extraPayment, it.cumulativeInflationFactor)
    ELSE config.extraPayment

\* C14: in every period where fixedPayment > requiredPayment the payment
\* before rental is fixedPayment and the entry's manualExtra is 0; in every
\* period where fixedPayment <= requiredPayment (or fixedPayment is 0) the
\* payment before rental is requiredPayment and manualExtra is the configured
\* extra payment.
C14_FixedPaymentOverride ==
    Stepped =>
        IF Get(config, "fixedPayment", 0) > Last.requiredPayment
        THEN /\ it.paymentBeforeRental = config.fixedPayment
             /\ Last.manualExtra = 0
        ELSE /\ it.paymentBeforeRental = Last.requiredPayment
             /\ Last.manualExtra = ConfiguredExtra
             /\ ~Get(config, "indexExtraPayment", FALSE)
                  => Last.manualExtra = Get(config, "extraPayment", 0)

\* A fixed payment above the required payment replaces a configured extra.
C14_Witness ==
    /\ Stepped /\ config.extraPayment > 0
    /\ Last.requiredPayment > 0
    /\ config.fixedPayment > Last.requiredPayment
    /\ it.paymentBeforeRental = config.fixedPayment
    /\ Last.manualExtra = 0

\* C15: every entry with month > rentalDurationMonths, and every entry of a
\* schedule whose rentalIncome is absent or has applyToLoan false, has
\* rentalContribution = 0, rentBasedExtra = 0 and userOutOfPocket equal to
\* totalPaymentToLoan; entries with month <= rentalDurationMonths and
\* applyToLoan true are blended: the rent pays its share and the user the rest.
C15_RentalWindow ==
    Stepped =>
        IF AppliesRent(config) /\ WithinRentalDuration(config.rentalIncome, Last.month)
        THEN /\ Last.rentalContribution = Min(PeriodNetRent, PeriodPayment)
             /\ Last.rentBasedExtra = Max(0, PeriodNetRent - PeriodPayment)
             /\ Last.userOutOfPocket
                  = Last.totalPaymentToLoan - Last.rentalContribution - Last.rentBasedExtra
             /\ PeriodNetRent > 0 /\ PeriodPayment > 0 => Last.rentalContribution > 0
        ELSE /\ Last.rentalContribution = 0
             /\ Last.rentBasedExtra = 0
             /\ Last.userOutOfPocket = Last.totalPaymentToLoan

\* The first period after the rental window: the period before it was paid
\* partly by rent, this one by the user alone.
C15_Witness ==
    /\ Len(schedule) > 1 /\ AppliesRent(config)
    /\ "rentalDurationMonths" \in DOMAIN config.rentalIncome
    /\ Last.month = config.rentalIncome.rentalDurationMonths + 1
    /\ schedule[Len(schedule) - 1].rentalContribution > 0
    /\ Last.rentalContribution = 0 /\ Last.rentBasedExtra = 0
    /\ Last.userOutOfPocket = Last.totalPaymentToLoan
    /\ Last.userOutOfPocket > 0

\* The sum of an entry field over the whole schedule.
Total(f) == SumField(schedule, f, Len(schedule))

\* C16: the summary totals are the sums over the emitted entries:
\* totalInterest of interest, totalInflation of the inflation amounts,
\* totalPaidToLoan of the entries' totalPaymentToLoan, totalPaidByUser of the
\* entries' userOutOfPocket, and totalFees = termMonths * monthlyFee, the fee
\* being counted once per period in the user-paid and in the loan-paid total.
C16_SummaryTotals ==
    (Returned /\ result.kind = "record") =>
        /\ result.summary.totalInterest = Total("interest")
        /\ result.summary.totalInflation = Total("inflation")
        /\ result.summary.totalPaidToLoan = Total("totalPaymentToLoan")
        /\ result.summary.totalPaidByUser = Total("userOutOfPocket")
        /\ result.summary.totalFees = result.summary.termMonths * Get(config, "monthlyFee", 0)
        /\ result.summary.totalFees = Total("fee")
        /\ Get(config, "fixedPayment", 0) = 0
             => result.summary.totalPaidToLoan
                  = Total("requiredPayment") + Total("manualExtra") + Total("rentBasedExtra")
                    + result.summary.totalFees
        /\ ~AppliesRent(config)
             => result.summary.totalPaidByUser = result.summary.totalPaidToLoan

\* A schedule with a fee, indexation and blended rent has been returned.
C16_Witness ==
    /\ pc = "done" /\ result.kind = "record"
    /\ config.monthlyFee > 0
    /\ result.summary.totalFees = Len(schedule) * config.monthlyFee
    /\ result.summary.totalInflation > 0
    /\ result.summary.totalInterest > 0
    /\ result.summary.totalPaidByUser < result.summary.totalPaidToLoan

\* The quantities C17 names, for the call in config: f, R and C.
FactorGiven == Get(config, "inflationFactor", One)
RentR ==
    IF Get(config.rental, "indexed", TRUE)
    THEN Times(config.rental.grossRent, FactorGiven) ELSE config.rental.grossRent
CostsC ==
    IF Get(config.rental, "indexCosts", TRUE)
    THEN Times(Get(config.rental, "operatingCosts", 0), FactorGiven)
    ELSE Get(config.rental, "operatingCosts", 0)

\* C17: calculateNetRent(rental, f) returns max(0, R - R * taxRate - R *
\* vacancyRate - C), where R is grossRent * f if indexed and grossRent
\* otherwise, C is operatingCosts * f if indexCosts and operatingCosts
\* otherwise (taxRate defaults to 0.11, vacancyRate to 0.05, f to 1); the
\* result is never negative, and with both flags false it does not depend on f.
C17_NetRent ==
    (pc = "done" /\ result.kind = "number") =>
        /\ result.value
             = Max(0, RentR - Times(RentR, Get(config.rental, "taxRate", Pct(11)))
                            - Times(RentR, Get(config.rental, "vacancyRate", Pct(5)))
                            - CostsC)
        /\ result.value >= 0
        /\ (~Get(config.rental, "indexed", TRUE) /\ ~Get(config.rental, "indexCosts", TRUE))
             => \A k \in 0..MaxFactorSteps :
                    result.value = calculateNetRent(config.rental, One + k * (One \div 2))

\* Indexed costs above the rent at a factor above 1: the result is floored at 0.
C17_Witness ==
    /\ pc = "done" /\ result.kind = "number"
    /\ FactorGiven > One
    /\ "indexCosts" \notin DOMAIN config.rental
    /\ config.rental.grossRent > 0
    /\ CostsC > RentR
    /\ result.value = 0

\* C18: two invocations of calculateSchedule with the same configuration
\* record, made at any two times, return schedules and summaries that are
\* equal in every field, each entry's date included, and the configuration is
\* not modified.
C18_SameResultAtAnyTime ==
    (pc = "done" /\ earlier # NoEarlier) =>
        /\ schedule = earlier.schedule
        /\ result = earlier.result
        /\ config = earlier.config

\* The numeric fields of an entry.
NumericFields(entry) == [ k \in (DOMAIN entry) \ {"date"} |-> entry[k] ]

\* C19: calculateSchedule applied to the JSON-serialised-then-parsed copy of a
\* configuration (with an embedded rental income, and with an omitted or
\* unlimited rentalDurationMonths, which comes back missing or null) returns
\* the same per-period numeric fields and the same summary as for the original.
C19_RoundTrippedConfig ==
    (pc = "done" /\ earlier # NoEarlier) =>
        /\ result = earlier.result
        /\ Len(schedule) = Len(earlier.schedule)
        /\ \A k \in DOMAIN schedule :
               NumericFields(schedule[k]) = NumericFields(earlier.schedule[k])

\* An unlimited rental window has come back as null and rent is still blended
\* in the last period.
C19_Witness ==
    /\ pc = "done" /\ earlier # NoEarlier
    /\ HasRental(config)
    /\ Get(earlier.config.rentalIncome, "rentalDurationMonths", 0) = Infinity
    /\ Get(config.rentalIncome, "rentalDurationMonths", 0) = Null
    /\ config # earlier.config
    /\ Len(schedule) = 12
    /\ schedule[1].rentalContribution > 0
    /\ Last.rentBasedExtra > 0

\* C20: an invalid configuration (non-positive loan amount, non-positive
\* loanTermYears or non-positive annualInterestRate) is signalled by
\* calculateSchedule returning null or a result whose schedule is empty, for
\* both values of acceleratedPayoff.
C20_InvalidIsNullOrEmpty ==
    (Returned /\ invalid(config))
        => \/ result.kind = "null"
           \/ result.kind = "record" /\ schedule = <<>>

\* C21: breakdownByYear holds one point per year 0, 1, ..., ceil(termMonths /
\* 12), in increasing order; for a year >= 1 its loanBalance is
\* schedule[year * 12 - 1].balance when that index is inside the schedule and
\* 0 once the index is past the end; at year 0 it is the starting balance
\* before the first payment (the loan amount, to within the 0.01 rounding
\* guard, when nothing is indexed); every point has equity = propertyValue -
\* loanBalance.
C21_YearlyBreakdown ==
    pc = "analysed" =>
        /\ Len(metrics.breakdownByYear) = (Len(schedule) + 11) \div 12 + 1
        /\ \A k \in DOMAIN metrics.breakdownByYear :
              /\ metrics.breakdownByYear[k].year = k - 1
              /\ metrics.breakdownByYear[k].equity
                   = metrics.breakdownByYear[k].propertyValue
                     - metrics.breakdownByYear[k].loanBalance
              /\ metrics.breakdownByYear[k].loanBalance
                   = IF k = 1
                     THEN (IF Len(schedule) > 0 THEN schedule[1].balanceStart ELSE 0)
                     ELSE IF (k - 1) * 12 <= Len(schedule)
                     THEN schedule[(k - 1) * 12].balance
                     ELSE 0
        /\ ~isIndexed(config) =>
              Abs(metrics.breakdownByYear[1].loanBalance - config.loanAmount) <= Cent

\* A schedule that ends in the middle of its second year: the point of year 1
\* carries entry 12's balance and the point of year 2 is past the end.
C21_Witness ==
    /\ pc = "analysed"
    /\ Len(schedule) > 12 /\ Len(schedule) < 24
    /\ Len(metrics.breakdownByYear) = 3
    /\ metrics.breakdownByYear[2].loanBalance = schedule[12].balance
    /\ schedule[12].balance > 0
    /\ metrics.breakdownByYear[3].loanBalance = 0

C23_CashConserved ==
    /\ \A k \in DOMAIN schedule :
          schedule[k].userOutOfPocket + schedule[k].rentalContribution
              + schedule[k].rentBasedExtra = schedule[k].totalPaymentToLoan
    /\ (Returned /\ result.kind = "record") =>
          result.summary.totalPaidByUser + result.summary.totalRentalContribution
              = result.summary.totalPaidToLoan

\* A returned schedule with a fee in which, under the fixed-payment override,
\* rent covers a part of one payment and the user the rest.
C23_Witness ==
    /\ pc = "done" /\ result.kind = "record"
    /\ config.monthlyFee > 0
    /\ \E k \in DOMAIN schedule :
          /\ config.fixedPayment > schedule[k].requiredPayment
          /\ schedule[k].rentalContribution > 0
          /\ schedule[k].rentBasedExtra = 0
          /\ schedule[k].userOutOfPocket > schedule[k].fee
    /\ result.summary.totalRentalContribution > 0
    /\ result.summary.totalPaidByUser < result.summary.totalPaidToLoan

\* C24: the loan is never overpaid: in every entry the amount paid to the loan
\* without the fee is at most the interest due plus the balance after
\* inflation; so in an entry that follows an entry with balance 0 the payment
\* to the loan, manualExtra and userOutOfPocket, the fee apart, are all 0.
C24_NeverOverpaid ==
    Stepped =>
        /\ Last.totalPaymentToLoan - Last.fee
              <= Last.interest + PrevBalance + Last.inflation
        /\ (Len(schedule) > 1 /\ PrevBalance = 0) =>
              /\ Last.totalPaymentToLoan - Last.fee = 0
              /\ Last.manualExtra = 0
              /\ Last.userOutOfPocket - Last.fee = 0

\* C25: with acceleratedPayoff = false and loanTermYears * 12 <= 600, for every
\* loan type and every extraPayment, fixedPayment and rental configuration,
\* the last entry of the returned schedule has balance 0: the required payment
\* of the final period (remainingMonths = 1) is the interest plus the whole
\* balance after inflation, to within 0.01.
C25_FixedTermEndsRepaid ==
    (/\ Returned /\ result.kind = "record"
     /\ ~Get(config, "acceleratedPayoff", FALSE)
     /\ totalMonthsOf(config) <= 600 /\ Stepped) =>
        /\ Len(schedule) = totalMonthsOf(config)
        /\ Last.balance = 0
        /\ Abs(Last.requiredPayment - (Last.interest + PrevBalance + Last.inflation)) < Cent

\* A fixed-term indexed loan with an extra payment, returned after a final
\* period that still had a balance to clear.
C25_Witness ==
    /\ pc = "done" /\ result.kind = "record"
    /\ ~config.acceleratedPayoff /\ isIndexed(config)
    /\ config.extraPayment > 0
    /\ Len(schedule) = totalMonthsOf(config)
    /\ PrevBalance > Cent /\ Last.principal > Cent /\ Last.balance = 0

\* C26: under acceleratedPayoff a schedule of fewer than 600 entries ends with
\* the first and only entry whose balance is 0, every earlier entry having a
\* balance above 0.01.
C26_StopsExactlyAtPayoff ==
    (/\ Returned /\ result.kind = "record" /\ Stepped
     /\ Get(config, "acceleratedPayoff", FALSE) /\ Len(schedule) < 600) =>
        /\ Last.balance = 0
        /\ \A k \in 1..(Len(schedule) - 1) : schedule[k].balance > Cent

\* C27 as stated: under the legacy policy with a term within the cap the
\* schedule is never longer than the contractual term, for every loan type.
C27_WithinContractualTerm ==
    (/\ Returned /\ result.kind = "record"
     /\ Get(config, "acceleratedPayoff", FALSE) /\ totalMonthsOf(config) <= 600) =>
        result.summary.termMonths <= totalMonthsOf(config)

\* C27 amended: under the legacy policy with a term within the cap the
\* schedule is never longer than the contractual term when the balance is not
\* indexed (NonIndexedAnnuity, EqualPrincipal, or IndexedAnnuity at inflation
\* 0); an indexed loan under inflation is bounded by the 600-period cap only.
C27_WithinTermUnlessIndexed ==
    (/\ Returned /\ result.kind = "record"
     /\ Get(config, "acceleratedPayoff", FALSE) /\ totalMonthsOf(config) <= 600) =>
        /\ (~isIndexed(config) \/ Get(config, "annualInflationRate", 0) = 0) =>
              result.summary.termMonths <= totalMonthsOf(config)
        /\ result.summary.termMonths <= 600

\* A legacy indexed loan without inflation has been repaid in its last
\* contractual period, the base payment clearing the balance.
C27_Witness ==
    /\ pc = "done" /\ result.kind = "record"
    /\ config.acceleratedPayoff /\ isIndexed(config)
    /\ config.annualInflationRate = 0 /\ config.annualInterestRate > 0
    /\ result.summary.termMonths = totalMonthsOf(config)
    /\ Last.balance = 0 /\ Last.principal > Cent

\* Both policies have returned a schedule for a non-indexed loan without
\* extra payment, fixed payment or rental income: schedule is the
\* recalculating one, earlier.schedule the legacy one.
BothPolicies ==
    /\ pc = "done" /\ earlier # NoEarlier
    /\ result.kind = "record" /\ earlier.result.kind = "record"
    /\ NoExtras(config) /\ ~isIndexed(config)

\* C28 as stated: with extraPayment = 0, fixedPayment = 0 and no rental
\* blending the two policies return, for EqualPrincipal and NonIndexedAnnuity,
\* the same number of entries and the same requiredPayment, interest,
\* principal and balance in every period.
C28_PoliciesCoincide ==
    BothPolicies =>
        /\ Len(earlier.schedule) = Len(schedule)
        /\ \A k \in DOMAIN schedule : k \in DOMAIN earlier.schedule =>
              \A f \in {"requiredPayment", "interest", "principal", "balance"} :
                  earlier.schedule[k][f] = schedule[k][f]

\* C28 amended: the two policies agree up to rounding and the 0.01 rounding
\* guard. The legacy schedule is never the longer one; it is shorter only when
\* its balance falls to 0.01 or below before the end of the term, and the
\* recalculating entries from there on carry a balance below 0.02; in every
\* period both schedules have, requiredPayment, interest, principal and
\* balance differ by less than 0.02.
C28_PoliciesAgreeToRounding ==
    BothPolicies =>
        /\ Len(earlier.schedule) <= Len(schedule)
        /\ Len(earlier.schedule) < Len(schedule) =>
              /\ Len(earlier.schedule) > 0
              /\ earlier.schedule[Len(earlier.schedule)].balance <= Cent
        /\ \A k \in DOMAIN schedule :
              IF k \in DOMAIN earlier.schedule
              THEN \A f \in {"requiredPayment", "interest", "principal", "balance"} :
                       Abs(earlier.schedule[k][f] - schedule[k][f]) < 2 * Cent
              ELSE schedule[k].balance < 2 * Cent

\* Both policies have run the whole term of a loan with interest, and their
\* required payments differ in the last digits.
C28_Witness ==
    /\ BothPolicies
    /\ config.annualInterestRate > 0
    /\ Len(schedule) = totalMonthsOf(config)
    /\ Len(earlier.schedule) = Len(schedule)
    /\ \E k \in DOMAIN schedule :
          /\ earlier.schedule[k].requiredPayment # schedule[k].requiredPayment
          /\ schedule[k].balance > Cent

\* C29 as stated: a fixed payment never lowers what is paid: in every period
\* the payment before rental plus the entry's manualExtra is at least
\* requiredPayment plus the extra payment the period would carry with
\* fixedPayment = 0.
C29_FixedPaymentNeverLowers ==
    Stepped =>
        it.paymentBeforeRental + Last.manualExtra >= Last.requiredPayment + ConfiguredExtra

\* C29 amended: a fixed payment never lowers the payment below
\* requiredPayment; it lowers it below requiredPayment plus the configured
\* extra exactly in the periods where requiredPayment < fixedPayment <
\* requiredPayment + extra, where fixedPayment alone is paid.
C29_FixedPaymentReplacesExtra ==
    Stepped =>
        /\ it.paymentBeforeRental + Last.manualExtra >= Last.requiredPayment
        /\ IF /\ Get(config, "fixedPayment", 0) > Last.requiredPayment
              /\ Get(config, "fixedPayment", 0) < Last.requiredPayment + ConfiguredExtra
           THEN it.paymentBeforeRental + Last.manualExtra = config.fixedPayment
           ELSE it.paymentBeforeRental + Last.manualExtra
                    >= Last.requiredPayment + ConfiguredExtra

\* A period whose fixed payment lies between the required payment and the
\* required payment plus the extra: the fixed payment alone is paid.
C29_Witness ==
    /\ Stepped /\ Last.requiredPayment > 0
    /\ config.fixedPayment > Last.requiredPayment
    /\ config.fixedPayment < Last.requiredPayment + ConfiguredExtra
    /\ it.paymentBeforeRental = config.fixedPayment
    /\ Last.manualExtra = 0

\* C30: ScenarioManager keeps memory and storage in step: after any sequence
\* of add, update, remove and clear calls, calls whose write to storage fails
\* included, the list a fresh ScenarioManager loads from the same storage key
\* equals the list getAll() returns, and add(name, params) has returned an
\* index i at which get(i) is the scenario just added.
C30_MemoryAndStorageInStep ==
    /\ load(storage) = getAll
    /\ added # NoAdded => get(added.index) = added.scenario
====
